---- MODULE Spec2Model ----
(***************************************************************************)
(* Model of the picmap catalog: the WebDAV sync tool (sync_webdav.py) and  *)
(* the random-image lookup of the bot plugin (nsy/plugins/picmap).         *)
(*                                                                         *)
(* The catalog is one SQLite file.  `db` is its committed content.  Each   *)
(* sync connection works through Python's sqlite3 module with its default  *)
(* (deferred, implicit) transactions: the first UPDATE/INSERT opens a      *)
(* transaction that holds the database write lock until conn.commit() or   *)
(* until the connection is closed (which rolls it back).  `tx[c]` is the   *)
(* private content of connection c's open transaction, <<>> when it has    *)
(* none.  The plugin reads with plain SELECTs outside any transaction, so  *)
(* each of its SELECTs sees the content committed at the time it runs.     *)
(*                                                                         *)
(* An optional value is a sequence: <<>> is None, <<x>> is x.              *)
(***************************************************************************)
EXTENDS Integers, Sequences, FiniteSets, TLC

VARIABLES
    db,       \* committed catalog: person, image, person_stats, sequences
    tx,       \* tx[c]: content of c's open write transaction, or <<>>
    pc,       \* pc[c]: where connection c's run stands
    mode,     \* mode[c]: "all" (sync_all) or "single" (one sync_person call)
    names,    \* names[c]: the names sync_all still has to visit
    cur,      \* cur[c]: name, id and dav_url of the person being synced
    urls,     \* urls[c]: the list list_dir returned
    results,  \* results[c]: how each sync_person call of the run ended, as
              \* sync_all prints it: the name, and OK or the error raised
    runs,     \* number of runs started so far
    lastOK,   \* lastOK[p]: history of person p, kept while p's committed rows are
              \* those its last successful sync left: the listing of that sync, and
              \* how it relates to the listing of the successful sync before it
    spc,      \* the plugin's lookup: position
    spid,     \* person id found by find_person
    sn,       \* img_count read from person_stats
    sk,       \* the offset drawn by random.randrange
    srow,     \* the row returned, or <<>>
    ssnap,    \* history: the person's committed rows when img_count was read
    stext,    \* the handler's text: the message, normalized
    hit,      \* what lookup_db returned for it
    linput,   \* a call of list_dir: its location and what the remote answers
    lout      \* what that call returned, or how it ended

vars == <<db, tx, pc, mode, names, cur, urls, results, runs, lastOK,
          spc, spid, sn, sk, srow, ssnap, stext, hit, linput, lout>>
syncvars == <<db, tx, pc, mode, names, cur, urls, results, runs, lastOK>>
readvars == <<spc, spid, sn, sk, srow, ssnap, stext, hit>>
listvars == <<linput, lout>>

\* ------------------------------------------------------------------ bounds
\* longest multi-status response the remote answers with
MaxListLen == 2
\* runs (sync_all or a single sync_person call) started in one behaviour
MaxRuns == 2

\* entries of a multi-status response given to list_dir on its own
MaxRespLen == 4

Conns == {1, 2}

\* ------------------------------------------------------------- constants
\* MIN(id)/MAX(id) over no rows is SQL NULL; row ids start at 1
NULL == 0

\* the two seeded persons, names and aliases shortened
PERSONS_SEED ==
    << [name |-> "A", url |-> "dirA/", aliases |-> <<"a1">>],
       [name |-> "B", url |-> "dirB/", aliases |-> <<"b1">>] >>

IMAGE_EXTS == {".jpg", ".jpeg", ".png", ".gif", ".webp"}

\* hrefs a multi-status response for the first seeded directory may carry
HREFS == {"x.jpg", "y.PNG", "notes.txt"}

\* those for the second seeded directory; "." is the directory itself
HREFS_B == {"notes.txt", "."}

\* hrefs of any kind: images, another file, a collection, the directory
\* itself with and without its slash, a collection named like an image, none
LIST_HREFS == {"x.jpg", "y.PNG", "notes.txt", "subdir/", "/dirA/", "/dirA", "x.jpg/", ""}

\* the first seeded directory, written with and without its slash
LOCATIONS == {"dirA/", "dirA"}

\* texts a lookup may be asked for
KEYS == {"A", "B", "C", "a1", "b1", "zz"}

\* names a single sync_person call may be given
CALLNAMES == {"C", "nobody"}

\* ---------------------------------------------------------------- text
\* variant: the text is taken as it is
strip_none(u) == u

\* str.strip() on the texts of the model
strip(u) ==
    CASE u = " " -> ""
      [] u = " A " -> "A"
      [] u = "a1 " -> "a1"
      [] OTHER -> u

\* the content of an alias_json column is a JSON text: t is what it parses
\* to ("array", "string", or "malformed" when it does not parse), v the
\* strings of the array, or the one string
json_dumps(aliases) ==
    [t |-> "array", v |-> aliases]

\* the rows of json_each(alias_json): the elements of an array, the value
\* itself for a primitive; <<>> stands for no rows
json_each(j) ==
    IF j.t \in {"array", "string"} THEN j.v ELSE <<>>

\* lookup_db: json.loads(alias_json) guarded by try/except and isinstance(list)
json_loads_list(j) ==
    IF j.t = "array" THEN j.v ELSE <<>>

\* ---------------------------------------------------------------- urls

\* os.path.splitext(path)[1].lower() on the paths of the model
splitext_lower(path) ==
    CASE path = "x.jpg" -> ".jpg"
      [] path = "y.PNG" -> ".png"
      [] path = "z.gif" -> ".gif"
      [] path = "notes.txt" -> ".txt"
      [] OTHER -> ""

\* the texts of the model spelled out, one character an element; a location
\* stands for http://host/ followed by its spelling
chars(s) ==
    CASE s = "x.jpg" -> <<"x", ".", "j", "p", "g">>
      [] s = "y.PNG" -> <<"y", ".", "P", "N", "G">>
      [] s = "z.gif" -> <<"z", ".", "g", "i", "f">>
      [] s = "notes.txt" -> <<"n", "o", "t", "e", "s", ".", "t", "x", "t">>
      [] s = "subdir/" -> <<"s", "u", "b", "d", "i", "r", "/">>
      [] s = "x.jpg/" -> <<"x", ".", "j", "p", "g", "/">>
      [] s = "/dirA/" -> <<"/", "d", "i", "r", "A", "/">>
      [] s = "/dirA" -> <<"/", "d", "i", "r", "A">>
      [] s = "dirA/" -> <<"/", "d", "i", "r", "A", "/">>
      [] s = "dirA" -> <<"/", "d", "i", "r", "A">>
      [] s = "dirB/" -> <<"/", "d", "i", "r", "B", "/">>
      [] s = "dirOld/" -> <<"/", "d", "i", "r", "O", "l", "d", "/">>
      [] s = "dirD/" -> <<"/", "d", "i", "r", "D", "/">>
      [] s = ".jpg" -> <<".", "j", "p", "g">>
      [] s = ".jpeg" -> <<".", "j", "p", "e", "g">>
      [] s = ".png" -> <<".", "p", "n", "g">>
      [] s = ".gif" -> <<".", "g", "i", "f">>
      [] s = ".webp" -> <<".", "w", "e", "b", "p">>
      [] s = "." -> <<".">>
      [] s = " " -> <<" ">>
      [] OTHER -> <<>>

\* str.lower() on the letters of the model
lower(cs) ==
    [i \in DOMAIN cs |->
        CASE cs[i] = "A" -> "a"
          [] cs[i] = "B" -> "b"
          [] cs[i] = "D" -> "d"
          [] cs[i] = "G" -> "g"
          [] cs[i] = "N" -> "n"
          [] cs[i] = "O" -> "o"
          [] cs[i] = "P" -> "p"
          [] OTHER -> cs[i]]

endswith(cs, suffix) ==
    /\ Len(cs) >= Len(suffix)
    /\ SubSeq(cs, Len(cs) - Len(suffix) + 1, Len(cs)) = suffix

startswith(cs, prefix) ==
    /\ Len(cs) >= Len(prefix)
    /\ SubSeq(cs, 1, Len(prefix)) = prefix

\* str.rstrip("/")
RECURSIVE rstrip_slash(_)
rstrip_slash(cs) ==
    IF cs # <<>> /\ cs[Len(cs)] = "/" THEN rstrip_slash(SubSeq(cs, 1, Len(cs) - 1))
    ELSE cs

\* base if base.endswith("/") else base + "/"
with_slash(base) ==
    IF endswith(chars(base), <<"/">>) THEN base
    ELSE CASE base = "dirA" -> "dirA/"
           [] OTHER -> base

\* an absolute URL is the pair <<base, path below base>>, or <<"", path>> for
\* an href that is a path from the root
abs_url(base, href) ==
    IF startswith(chars(href), <<"/">>) THEN <<"", href>>
    ELSE IF href = "." THEN <<with_slash(base), "">>
    ELSE <<with_slash(base), href>>

\* the path of a pair spelled out; _enc quotes none of the model's characters
url_chars(u) ==
    chars(u[1]) \o chars(u[2])

url_path(u) ==
    IF u[2] = "" THEN u[1] ELSE u[2]

\* variant: the path is compared as it is spelled
is_image_case_sensitive(u) ==
    \E ext \in IMAGE_EXTS : endswith(url_chars(u), chars(ext))

\* path.lower() ends with one of IMAGE_EXTS
image_path(u) ==
    \E ext \in IMAGE_EXTS : endswith(lower(url_chars(u)), chars(ext))

\* the locations and the hrefs of the model
LOCATION_TEXTS == {"", " ", "dirA/", "dirA", "dirB/", "dirOld/", "dirD/"}
HREF_TEXTS == HREFS \cup HREFS_B \cup LIST_HREFS

\* image_path for every URL of the model, worked out once
image_paths ==
    [u \in LOCATION_TEXTS \X (HREF_TEXTS \cup {""}) |-> image_path(u)]

is_image(u) ==
    image_paths[u]

\* list_dir: one pass of the loop over the D:response elements, <<>> when
\* the entry is skipped, the URL that is appended otherwise
list_dir_pass(base, href) ==
    LET absu == abs_url(base, href)
    IN  IF href = "" THEN <<>>
        ELSE IF rstrip_slash(url_chars(absu)) = rstrip_slash(chars(base)) THEN <<>>
        ELSE IF is_image(absu) THEN <<absu>>
        ELSE <<>>

\* the passes for every location and href of the model, worked out once
list_dir_passes ==
    [base \in LOCATION_TEXTS, href \in HREF_TEXTS |-> list_dir_pass(base, href)]

RECURSIVE filter_hrefs(_, _)
filter_hrefs(base, resp) ==
    IF resp = <<>> THEN <<>>
    ELSE list_dir_passes[base, Head(resp)] \o filter_hrefs(base, Tail(resp))

\* every response of at most MaxListLen entries
RECURSIVE SeqsUpTo(_, _)
SeqsUpTo(S, n) ==
    IF n = 0 THEN {<<>>}
    ELSE LET shorter == SeqsUpTo(S, n - 1)
         IN  shorter \cup {Append(s, x) : s \in {t \in shorter : Len(t) = n - 1}, x \in S}

\* the multi-status responses the remote may give for location u
Responses(u) ==
    IF u = "dirB/" THEN SeqsUpTo(HREFS_B, 1) ELSE SeqsUpTo(HREFS, MaxListLen)

\* ------------------------------------------------------------ the store
RECURSIVE SortById(_)
SortById(rows) ==
    IF rows = {} THEN <<>>
    ELSE LET r == CHOOSE x \in rows : \A y \in rows : x.id <= y.id
         IN  <<r>> \o SortById(rows \ {r})

MinId(rows) ==
    IF rows = {} THEN NULL ELSE (CHOOSE x \in rows : \A y \in rows : x.id <= y.id).id

MaxId(rows) ==
    IF rows = {} THEN NULL ELSE (CHOOSE x \in rows : \A y \in rows : x.id >= y.id).id

ImagesOf(d, pid) == {r \in d.image : r.person_id = pid}
ActiveOf(d, pid) == {r \in d.image : r.person_id = pid /\ r.active = 1}
StatsOf(d, pid) == {s \in d.stats : s.person_id = pid}

\* variant: INSERT OR REPLACE, a person that exists is deleted and inserted anew
seed_one_replace(d, s) ==
    [d EXCEPT !.person = {p \in @ : p.name # s.name}
                           \cup {[id |-> d.seq_person + 1, name |-> s.name,
                                  alias_json |-> json_dumps(s.aliases),
                                  dav_url |-> s.url, enabled |-> 1]},
              !.seq_person = @ + 1]

seed_one(d, s) ==
    IF \E p \in d.person : p.name = s.name
    THEN [d EXCEPT !.person =
            {IF p.name = s.name
             THEN [p EXCEPT !.alias_json = json_dumps(s.aliases), !.dav_url = s.url,
                             !.enabled = 1]
             ELSE p : p \in d.person}]
    ELSE [d EXCEPT !.person = @ \cup {[id |-> d.seq_person + 1, name |-> s.name,
                                        alias_json |-> json_dumps(s.aliases),
                                        dav_url |-> s.url,
                                        enabled |-> 1]},
                   !.seq_person = @ + 1]

RECURSIVE seed_rows(_, _)
seed_rows(d, seeds) ==
    IF seeds = <<>> THEN d ELSE seed_rows(seed_one(d, Head(seeds)), Tail(seeds))

seed_persons(d) ==
    seed_rows(d, PERSONS_SEED)

RECURSIVE NamesOf(_)
NamesOf(rows) ==
    IF rows = <<>> THEN <<>> ELSE <<Head(rows).name>> \o NamesOf(Tail(rows))

\* SELECT name FROM person WHERE enabled=1, in rowid order
enabled_names(d) ==
    NamesOf(SortById({p \in d.person : p.enabled = 1}))

\* variant: the rows of the person are deleted instead of flagged
deactivate_delete(d, pid) ==
    [d EXCEPT !.image = {r \in d.image : r.person_id # pid}]

\* UPDATE image SET active=0 WHERE person_id=?
deactivate(d, pid) ==
    [d EXCEPT !.image =
        {IF r.person_id = pid THEN [r EXCEPT !.active = 0] ELSE r : r \in d.image}]

\* variant: a plain INSERT into a table without the UNIQUE(person_id, url) key
upsert_image_duplicate(d, pid, u) ==
    [d EXCEPT !.image = @ \cup {[id |-> d.seq_image + 1, person_id |-> pid, url |-> u,
                                   ext |-> splitext_lower(url_path(u)), active |-> 1]},
              !.seq_image = @ + 1]

\* variant: INSERT OR IGNORE, a row that exists is left as it is
upsert_image_ignore(d, pid, u) ==
    LET ext == splitext_lower(url_path(u))
    IN  IF \E r \in d.image : r.person_id = pid /\ r.url = u
        THEN d
        ELSE [d EXCEPT !.image = @ \cup {[id |-> d.seq_image + 1, person_id |-> pid,
                                           url |-> u, ext |-> ext, active |-> 1]},
                       !.seq_image = @ + 1]

\* variant: INSERT OR REPLACE, a row that exists is deleted and inserted anew
upsert_image_replace(d, pid, u) ==
    LET ext == splitext_lower(url_path(u))
    IN  [d EXCEPT !.image = {r \in @ : ~(r.person_id = pid /\ r.url = u)}
                             \cup {[id |-> d.seq_image + 1, person_id |-> pid,
                                    url |-> u, ext |-> ext, active |-> 1]},
                  !.seq_image = @ + 1]

\* INSERT INTO image ... ON CONFLICT(person_id, url) DO UPDATE SET active=1, ext=...
upsert_image(d, pid, u) ==
    LET ext == splitext_lower(url_path(u))
    IN  IF \E r \in d.image : r.person_id = pid /\ r.url = u
        THEN [d EXCEPT !.image =
                {IF r.person_id = pid /\ r.url = u
                 THEN [r EXCEPT !.active = 1, !.ext = ext]
                 ELSE r : r \in d.image}]
        ELSE [d EXCEPT !.image = @ \cup {[id |-> d.seq_image + 1, person_id |-> pid,
                                           url |-> u, ext |-> ext, active |-> 1]},
                       !.seq_image = @ + 1]

\* variant: the aggregate is taken over every row of the person, active or not
upsert_stats_all_rows(d, pid) ==
    LET act == ImagesOf(d, pid)
        row == [person_id |-> pid, img_count |-> Cardinality(act),
                min_id |-> MinId(act), max_id |-> MaxId(act)]
    IN  [d EXCEPT !.stats = {s \in @ : s.person_id # pid} \cup {row}]

\* INSERT INTO person_stats ... SELECT ?, COUNT(*), MIN(id), MAX(id) ... ON CONFLICT DO UPDATE
upsert_stats(d, pid) ==
    LET act == ActiveOf(d, pid)
        row == [person_id |-> pid, img_count |-> Cardinality(act),
                min_id |-> MinId(act), max_id |-> MaxId(act)]
    IN  [d EXCEPT !.stats = {s \in @ : s.person_id # pid} \cup {row}]

\* what connection c reads: its own uncommitted writes, else the committed content
View(c) ==
    IF tx[c] # <<>> THEN tx[c][1] ELSE db

\* another connection holds the write lock
LockedByOther(c) ==
    \E o \in Conns \ {c} : tx[o] # <<>>

\* ---------------------------------------------------------------- init
PIDS == 1 .. 3

NoPerson == [name |-> "", pid |-> 0, url |-> ""]

\* no call of list_dir is looked at
NoCall == [u |-> "", remote |-> <<>>]

PersonC(e) ==
    [id |-> 1, name |-> "C", alias_json |-> json_dumps(<<"c1">>), dav_url |-> " ",
     enabled |-> e]

\* a new file, or one where a person was inserted by hand (enabled or not)
InitPersons == {{PersonC(0)}}

Init ==
    /\ \E P \in InitPersons :
          db = [person |-> P, image |-> {}, stats |-> {},
                seq_image |-> 0, seq_person |-> Cardinality(P)]
    /\ tx = [c \in Conns |-> <<>>]
    /\ pc = [c \in Conns |-> "idle"]
    /\ mode = [c \in Conns |-> "all"]
    /\ names = [c \in Conns |-> <<>>]
    /\ cur = [c \in Conns |-> NoPerson]
    /\ urls = [c \in Conns |-> <<>>]
    /\ results = [c \in Conns |-> <<>>]
    /\ runs = 0
    /\ lastOK = [p \in PIDS |-> <<>>]
    /\ spc = "idle"
    /\ spid = 0
    /\ sn = 0
    /\ sk = 0
    /\ srow = <<>>
    /\ ssnap = <<>>
    /\ stext = ""
    /\ hit = <<>>
    /\ linput = NoCall
    /\ lout = <<>>

\* ------------------------------------------------------------ sync tool
Stopped(c) == pc[c] = "idle"

\* the locals of a run that has not started, or of sync_person once it has returned
NoLocals(c) ==
    /\ cur' = [cur EXCEPT ![c] = NoPerson]
    /\ urls' = [urls EXCEPT ![c] = <<>>]

\* variant: sync_all without the try/except, an error of sync_person ends the run
Return_uncaught(c, out, newtx) ==
    /\ results' = [results EXCEPT ![c] =
                     Append(@, [name |-> cur[c].name, out |-> out])]
    /\ pc' = [pc EXCEPT ![c] = IF mode[c] = "all" /\ out = "OK" THEN "loop" ELSE "idle"]
    /\ tx' = [tx EXCEPT ![c] = IF mode[c] = "all" /\ out = "OK" THEN newtx ELSE <<>>]
    /\ mode' = [mode EXCEPT ![c] = "all"]
    /\ NoLocals(c)

\* sync_person returns ("OK") or raises (the error): sync_all prints [OK] or
\* [ERR] with the name and goes on with the connection as it is; the caller of
\* a single call closes the connection
Return(c, out, newtx) ==
    /\ results' = [results EXCEPT ![c] =
                     Append(@, [name |-> cur[c].name, out |-> out])]
    /\ pc' = [pc EXCEPT ![c] = IF mode[c] = "all" THEN "loop" ELSE "idle"]
    /\ tx' = [tx EXCEPT ![c] = IF mode[c] = "all" THEN newtx ELSE <<>>]
    /\ mode' = [mode EXCEPT ![c] = "all"]
    /\ NoLocals(c)

\* seed_persons called on a connection of its own: the upserts and the commit
seed_persons_commit(c) ==
    /\ Stopped(c)
    /\ runs < MaxRuns
    /\ runs' = runs + 1
    /\ db' = seed_persons(db)
    /\ UNCHANGED <<tx, pc, mode, names, cur, urls, results, lastOK>>
    /\ UNCHANGED readvars
    /\ UNCHANGED listvars

\* sync_all up to the for loop: connect, ensure_schema, seed_persons, SELECT name
sync_all_start(c) ==
    /\ Stopped(c)
    /\ runs < MaxRuns
    /\ ~LockedByOther(c)
    /\ runs' = runs + 1
    /\ db' = seed_persons(db)
    /\ names' = [names EXCEPT ![c] = enabled_names(seed_persons(db))]
    /\ mode' = [mode EXCEPT ![c] = "all"]
    /\ pc' = [pc EXCEPT ![c] = "loop"]
    /\ results' = [results EXCEPT ![c] = <<>>]
    /\ NoLocals(c)
    /\ UNCHANGED <<tx, lastOK>>
    /\ UNCHANGED readvars
    /\ UNCHANGED listvars

\* seed_persons' INSERT finds the database locked: sync_all raises
sync_all_locked(c) ==
    /\ Stopped(c)
    /\ runs < MaxRuns
    /\ LockedByOther(c)
    /\ runs' = runs + 1
    /\ results' = [results EXCEPT ![c] = <<>>]
    /\ UNCHANGED <<db, tx, pc, mode, names, cur, urls, lastOK>>
    /\ UNCHANGED readvars
    /\ UNCHANGED listvars

\* for name in names: sync_person(conn, name)
sync_all_next(c) ==
    /\ pc[c] = "loop"
    /\ names[c] # <<>>
    /\ cur' = [cur EXCEPT ![c] = [NoPerson EXCEPT !.name = Head(names[c])]]
    /\ names' = [names EXCEPT ![c] = Tail(@)]
    /\ pc' = [pc EXCEPT ![c] = "call"]
    /\ UNCHANGED <<db, tx, mode, urls, results, runs, lastOK>>
    /\ UNCHANGED readvars
    /\ UNCHANGED listvars

\* conn.close() after the loop: an open transaction is rolled back; the run is over
sync_all_close(c) ==
    /\ pc[c] = "loop"
    /\ names[c] = <<>>
    /\ tx' = [tx EXCEPT ![c] = <<>>]
    /\ pc' = [pc EXCEPT ![c] = "idle"]
    /\ results' = [results EXCEPT ![c] = <<>>]
    /\ UNCHANGED <<db, mode, names, cur, urls, runs, lastOK>>
    /\ UNCHANGED readvars
    /\ UNCHANGED listvars

\* a caller opens a connection and calls sync_person(conn, name) once
sync_person_call(c) ==
    /\ Stopped(c)
    /\ runs < MaxRuns
    /\ runs' = runs + 1
    /\ \E n \in CALLNAMES : cur' = [cur EXCEPT ![c] = [NoPerson EXCEPT !.name = n]]
    /\ mode' = [mode EXCEPT ![c] = "single"]
    /\ pc' = [pc EXCEPT ![c] = "call"]
    /\ results' = [results EXCEPT ![c] = <<>>]
    /\ names' = [names EXCEPT ![c] = <<>>]
    /\ urls' = [urls EXCEPT ![c] = <<>>]
    /\ UNCHANGED <<db, tx, lastOK>>
    /\ UNCHANGED readvars
    /\ UNCHANGED listvars

\* SELECT id, dav_url, enabled FROM person WHERE name=?
person_row(c) ==
    {p \in View(c).person : p.name = cur[c].name}

\* sync_person: no row of that name
sync_person_not_found(c) ==
    /\ pc[c] = "call"
    /\ person_row(c) = {}
    /\ Return(c, "person not found", tx[c])
    /\ UNCHANGED <<db, names, runs, lastOK>>
    /\ UNCHANGED readvars
    /\ UNCHANGED listvars

\* variant: a person that is not enabled is listed and deactivated all the same
sync_person_disabled_synced(c) ==
    /\ pc[c] = "call"
    /\ \E row \in {p \in View(c).person : p.name = cur[c].name} :
          /\ row.enabled = 0
          /\ cur' = [cur EXCEPT ![c] = [name |-> row.name, pid |-> row.id,
                                         url |-> row.dav_url]]
          /\ tx' = [tx EXCEPT ![c] = <<[View(c) EXCEPT !.image =
                     {[r EXCEPT !.active = IF r.person_id = row.id THEN 0 ELSE @] :
                        r \in View(c).image}]>>]
    /\ urls' = [urls EXCEPT ![c] = <<>>]
    /\ pc' = [pc EXCEPT ![c] = "write"]
    /\ UNCHANGED <<db, mode, names, results, runs, lastOK>>
    /\ UNCHANGED readvars
    /\ UNCHANGED listvars

\* sync_person: the person is not enabled
sync_person_disabled(c) ==
    /\ pc[c] = "call"
    /\ \E row \in person_row(c) : row.enabled = 0
    /\ Return(c, "OK", tx[c])
    /\ UNCHANGED <<db, names, runs, lastOK>>
    /\ UNCHANGED readvars
    /\ UNCHANGED listvars

\* list_dir: the outcomes for location u, given what the remote does
\* (<<>> for a failed request, <<resp>> for a multi-status response)
list_dir(u, remote) ==
    IF strip(u) = "" THEN <<<<>>>>
    ELSE IF remote = <<>> THEN <<>>
    ELSE IF is_image(<<strip(u), "">>) THEN <<<<(<<strip(u), "">>)>>>>
    ELSE <<filter_hrefs(strip(u), remote[1])>>

\* what list_dir may return for each location, over the responses the remote
\* may give, worked out once
list_dir_returns ==
    [u \in LOCATION_TEXTS |->
        {list_dir(u, <<resp>>)[1] : resp \in {r \in Responses(u) : list_dir(u, <<r>>) # <<>>}}]

\* sync_person: urls = list_dir(url) returned, and upsert_images ran its
\* UPDATE image SET active=0, which opens the transaction
sync_person_listed(c) ==
    /\ pc[c] = "call"
    /\ ~LockedByOther(c)
    /\ \E row \in person_row(c) :
          /\ row.enabled # 0
          /\ \E got \in list_dir_returns[row.dav_url] :
                urls' = [urls EXCEPT ![c] = got]
          /\ cur' = [cur EXCEPT ![c] = [name |-> row.name, pid |-> row.id,
                                         url |-> row.dav_url]]
          /\ tx' = [tx EXCEPT ![c] = <<deactivate(View(c), row.id)>>]
    /\ pc' = [pc EXCEPT ![c] = "write"]
    /\ UNCHANGED <<db, mode, names, results, runs, lastOK>>
    /\ UNCHANGED readvars
    /\ UNCHANGED listvars

\* variant: the rows are deactivated before the listing is asked for
sync_person_list_failed_late(c) ==
    /\ pc[c] = "call"
    /\ \E row \in person_row(c) :
          /\ row.enabled # 0
          /\ list_dir(row.dav_url, <<>>) = <<>>
          /\ Return(c, "remote error", <<deactivate(View(c), row.id)>>)
    /\ UNCHANGED <<db, names, runs, lastOK>>
    /\ UNCHANGED readvars
    /\ UNCHANGED listvars

\* sync_person: list_dir(url) raised (transport error, status, unparseable body)
sync_person_list_failed(c) ==
    /\ pc[c] = "call"
    /\ \E row \in person_row(c) :
          /\ row.enabled # 0
          /\ list_dir(row.dav_url, <<>>) = <<>>
    /\ Return(c, "remote error", tx[c])
    /\ UNCHANGED <<db, names, runs, lastOK>>
    /\ UNCHANGED readvars
    /\ UNCHANGED listvars

\* sync_person: list_dir(url) returned, and the UPDATE of upsert_images
\* timed out on the write lock of another connection
upsert_images_locked(c) ==
    /\ pc[c] = "call"
    /\ LockedByOther(c)
    /\ \E row \in person_row(c) :
          /\ row.enabled # 0
          /\ list_dir_returns[row.dav_url] # {}
    /\ Return(c, "database is locked", tx[c])
    /\ UNCHANGED <<db, names, runs, lastOK>>
    /\ UNCHANGED readvars
    /\ UNCHANGED listvars

\* upsert_images: the first n passes of for u in urls
RECURSIVE upsert_each(_, _, _, _)
upsert_each(d, pid, us, n) ==
    IF n = 0 THEN d
    ELSE upsert_image(upsert_each(d, pid, us, n - 1), pid, us[n])

SameRows(d, e, pid) ==
    ImagesOf(d, pid) = ImagesOf(e, pid) /\ StatsOf(d, pid) = StatsOf(e, pid)

Range(f) == {f[i] : i \in DOMAIN f}

\* how listing us relates to the listing of the sync before it
Relation(before, us) ==
    IF before = <<>> THEN "first"
    ELSE IF before[1].urls = us THEN "same"
    ELSE IF \E u \in Range(before[1].urls) : Range(us) = Range(before[1].urls) \ {u}
         THEN "one less"
    ELSE "other"

\* upsert_images: the for loop, the person_stats upsert, conn.commit();
\* sync_person returns
upsert_images_commit(c) ==
    /\ pc[c] = "write"
    /\ LET done == upsert_stats(upsert_each(tx[c][1], cur[c].pid, urls[c], Len(urls[c])),
                                cur[c].pid)
       IN  /\ db' = done
           /\ lastOK' = [p \in PIDS |->
                           IF p = cur[c].pid
                           THEN <<[urls |-> urls[c], rel |-> Relation(lastOK[p], urls[c])]>>
                           ELSE IF SameRows(db, done, p) THEN lastOK[p] ELSE <<>>]
    /\ Return(c, "OK", <<>>)
    /\ UNCHANGED <<names, runs>>
    /\ UNCHANGED readvars
    /\ UNCHANGED listvars

\* upsert_images: a statement after the UPDATE raises (disk full, I/O error)
\* once n passes of the loop are done (n = Len(urls) + 1: in conn.commit()).
\* The exception leaves upsert_images with the transaction still open and the
\* statements before it applied, unless SQLite had to roll the transaction back
upsert_images_error(c) ==
    /\ pc[c] = "write"
    /\ \/ \E n \in 0 .. Len(urls[c]) + 1 :
             LET part == IF n <= Len(urls[c])
                         THEN upsert_each(tx[c][1], cur[c].pid, urls[c], n)
                         ELSE upsert_stats(upsert_each(tx[c][1], cur[c].pid, urls[c],
                                                       Len(urls[c])), cur[c].pid)
             IN  Return(c, "store error", <<part>>)
       \/ Return(c, "store error", <<>>)
    /\ UNCHANGED <<db, names, runs, lastOK>>
    /\ UNCHANGED readvars
    /\ UNCHANGED listvars

\* the process dies: SQLite rolls the open transaction back
crash(c) ==
    /\ ~Stopped(c)
    /\ pc' = [pc EXCEPT ![c] = "idle"]
    /\ tx' = [tx EXCEPT ![c] = <<>>]
    /\ names' = [names EXCEPT ![c] = <<>>]
    /\ results' = [results EXCEPT ![c] = <<>>]
    /\ mode' = [mode EXCEPT ![c] = "all"]
    /\ NoLocals(c)
    /\ UNCHANGED <<db, runs, lastOK>>
    /\ UNCHANGED readvars
    /\ UNCHANGED listvars

\* --------------------------------------------------------------- plugin
\* normalize: text.strip()
normalize(text) ==
    strip(text)

\* lookup_db: the enabled rows in rowid order, the first whose alias_json
\* loads as a list that holds key
RECURSIVE lookup_aliases(_, _)
lookup_aliases(rows, key) ==
    IF rows = <<>> THEN <<>>
    ELSE IF key \in Range(json_loads_list(Head(rows).alias_json))
         THEN <<Head(rows).dav_url>>
    ELSE lookup_aliases(Tail(rows), key)

\* variant: the alias scan runs before the name match
lookup_db_alias_first(d, name) ==
    LET key == normalize(name)
        byname == {p \in d.person : p.name = key /\ p.enabled = 1}
        byalias == lookup_aliases(SortById({p \in d.person : p.enabled = 1}), key)
    IN  IF byalias # <<>> THEN byalias
        ELSE IF byname # {} THEN <<(CHOOSE p \in byname : TRUE).dav_url>>
        ELSE <<>>

\* lookup_db: <<dav_url>> for ("url", dav_url), <<>> for None
lookup_db(d, name) ==
    LET key == normalize(name)
        byname == {p \in d.person : p.name = key /\ p.enabled = 1}
    IN  IF byname # {} THEN <<(CHOOSE p \in byname : TRUE).dav_url>>
        ELSE lookup_aliases(SortById({p \in d.person : p.enabled = 1}), key)

\* sqlite3.OperationalError: json_each was given a text that is not JSON
Raised == [raised |-> "malformed JSON"]

\* find_person's second query over the enabled rows in rowid order:
\* EXISTS (SELECT 1 FROM json_each(alias_json) WHERE json_each.value = ?)
RECURSIVE alias_query(_, _)
alias_query(rows, key) ==
    IF rows = <<>> THEN <<>>
    ELSE IF Head(rows).alias_json.t = "malformed" THEN <<Raised>>
    ELSE IF key \in Range(json_each(Head(rows).alias_json)) THEN <<Head(rows)>>
    ELSE alias_query(Tail(rows), key)

\* find_person: the name first, then the aliases, enabled persons only
find_person(d, key) ==
    LET byname == {p \in d.person : p.name = key /\ p.enabled = 1}
    IN  IF byname # {} THEN <<CHOOSE p \in byname : TRUE>>
        ELSE alias_query(SortById({p \in d.person : p.enabled = 1}), key)

\* SELECT id, url FROM image WHERE person_id=? AND active=1 ORDER BY id LIMIT 1 OFFSET k
select_offset(d, pid, k) ==
    LET sorted == SortById(ActiveOf(d, pid))
    IN  IF k + 1 <= Len(sorted) THEN <<sorted[k + 1]>> ELSE <<>>

\* rand_image_rowid on one content d of the catalog, for the draw k
rand_image_rowid(d, pid, k) ==
    LET stat == StatsOf(d, pid)
    IN  IF stat = {} \/ (\E s \in stat : s.img_count <= 0) THEN <<>>
        ELSE select_offset(d, pid, k)

\* fetch_random_image_via_db: find_person
fetch_find_person(key) ==
    /\ spc \in {"idle", "done"}
    /\ LET p == find_person(db, key)
       IN  IF p = <<>> \/ p = <<Raised>>
           THEN spc' = "done" /\ spid' = 0
           ELSE spc' = "stat" /\ spid' = p[1].id
    /\ sn' = 0
    /\ sk' = 0
    /\ srow' = <<>>
    /\ ssnap' = <<>>
    /\ UNCHANGED <<stext, hit>>
    /\ UNCHANGED syncvars
    /\ UNCHANGED listvars

\* rand_image_rowid: SELECT img_count FROM person_stats
rand_image_rowid_stat ==
    /\ spc = "stat"
    /\ LET stat == StatsOf(db, spid)
       IN  IF stat = {} \/ (\E s \in stat : s.img_count <= 0)
           THEN spc' = "done" /\ sn' = 0 /\ ssnap' = <<>>
           ELSE /\ spc' = "pick"
                /\ sn' = (CHOOSE s \in stat : TRUE).img_count
                /\ ssnap' = <<ImagesOf(db, spid)>>
    /\ UNCHANGED <<spid, sk, srow>>
    /\ UNCHANGED <<stext, hit>>
    /\ UNCHANGED syncvars
    /\ UNCHANGED listvars

\* rand_image_rowid: k = random.randrange(n) and the OFFSET query
rand_image_rowid_pick ==
    /\ spc = "pick"
    /\ \E k \in 0 .. sn - 1 :
          /\ sk' = k
          /\ srow' = select_offset(db, spid, k)
    /\ spc' = "done"
    /\ ssnap' = <<>>
    /\ UNCHANGED <<spid, sn>>
    /\ UNCHANGED <<stext, hit>>
    /\ UNCHANGED syncvars
    /\ UNCHANGED listvars

\* the name_hit handler up to the call of rand_image_rowid: the text is
\* normalized, lookup_db decides whether the message names somebody, and
\* fetch_random_image_via_db looks the person up again with find_person
name_hit(msg) ==
    /\ spc \in {"idle", "done", "failed"}
    /\ LET text == normalize(msg)
           res == IF text = "" THEN <<>> ELSE lookup_db(db, text)
           p == find_person(db, text)
       IN  /\ stext' = text
           /\ hit' = res
           /\ IF res = <<>> \/ p = <<>>
              THEN spc' = "done" /\ spid' = 0
              ELSE IF p = <<Raised>>
              THEN spc' = "failed" /\ spid' = 0
              ELSE spc' = "stat" /\ spid' = p[1].id
    /\ sn' = 0
    /\ sk' = 0
    /\ srow' = <<>>
    /\ ssnap' = <<>>
    /\ UNCHANGED syncvars
    /\ UNCHANGED listvars

\* ---------------------------------------------------------------- spec
\* the sync tool alone: runs on two connections
Next ==
    \E c \in Conns :
        \/ sync_all_start(c)
        \/ sync_all_locked(c)
        \/ sync_all_next(c)
        \/ sync_all_close(c)
        \/ sync_person_call(c)
        \/ sync_person_not_found(c)
        \/ sync_person_disabled(c)
        \/ sync_person_listed(c)
        \/ sync_person_list_failed(c)
        \/ upsert_images_locked(c)
        \/ upsert_images_commit(c)
        \/ upsert_images_error(c)
        \/ crash(c)

Spec == Init /\ [][Next]_vars

\* the plugin's lookup beside the sync tool running on one connection
NextRead ==
    \/ sync_all_start(1)
    \/ sync_all_next(1)
    \/ sync_all_close(1)
    \/ sync_person_listed(1)
    \/ sync_person_list_failed(1)
    \/ upsert_images_commit(1)
    \/ upsert_images_error(1)
    \/ \E key \in KEYS : fetch_find_person(key)
    \/ rand_image_rowid_stat
    \/ rand_image_rowid_pick

SpecRead == Init /\ [][NextRead]_vars

\* every variable but db and linput as Init has it
Fresh ==
    /\ tx = [c \in Conns |-> <<>>]
    /\ pc = [c \in Conns |-> "idle"]
    /\ mode = [c \in Conns |-> "all"]
    /\ names = [c \in Conns |-> <<>>]
    /\ cur = [c \in Conns |-> NoPerson]
    /\ urls = [c \in Conns |-> <<>>]
    /\ results = [c \in Conns |-> <<>>]
    /\ runs = 0
    /\ lastOK = [p \in PIDS |-> <<>>]
    /\ spc = "idle"
    /\ spid = 0
    /\ sn = 0
    /\ sk = 0
    /\ srow = <<>>
    /\ ssnap = <<>>
    /\ stext = ""
    /\ hit = <<>>
    /\ lout = <<>>

\* a person A inserted by hand, with other aliases and location than the seed's
HandA(e) ==
    [id |-> 2, name |-> "A", alias_json |-> json_dumps(<<"old">>), dav_url |-> "dirOld/",
     enabled |-> e]

\* person tables made by hand: C with its blank location, with or without A
HandPersons ==
    {{PersonC(e)} : e \in {0, 1}} \cup {{PersonC(e), HandA(f)} : e \in {0, 1}, f \in {0, 1}}

\* image rows of earlier syncs, from when the locations were other ones
HandImage(i, pid, a) ==
    [id |-> i, person_id |-> pid, url |-> <<"dirOld/", "x.jpg">>, ext |-> ".jpg",
     active |-> a]

\* C's row is active, A's active or not
HandImages(P) ==
    {R \in SUBSET {HandImage(p.id, p.id, a) : p \in P, a \in {0, 1}} :
        /\ \A q, r \in R : q.id = r.id => q = r
        /\ HandImage(1, 1, 0) \notin R}

\* the catalog of such rows, with the aggregates of the syncs that made them
HandCatalog(P, R) ==
    [person |-> P, image |-> R,
     stats |-> {[person_id |-> pid, img_count |-> Cardinality({r \in R : r.person_id = pid /\ r.active = 1}),
                 min_id |-> MinId({r \in R : r.person_id = pid /\ r.active = 1}),
                 max_id |-> MaxId({r \in R : r.person_id = pid /\ r.active = 1})] :
                   pid \in {r.person_id : r \in R}},
     seq_image |-> 2, seq_person |-> Cardinality(P)]

InitHand ==
    /\ \E P \in HandPersons : \E R \in HandImages(P) : db = HandCatalog(P, R)
    /\ linput = NoCall
    /\ Fresh

\* seeding, and sync_person called for C, on one connection, on catalogs that
\* hold rows made by hand
NextHand ==
    \/ seed_persons_commit(1)
    \/ sync_person_call(1)
    \/ sync_person_not_found(1)
    \/ sync_person_disabled(1)
    \/ sync_person_listed(1)
    \/ upsert_images_commit(1)
    \/ upsert_images_error(1)

SpecHand == InitHand /\ [][NextHand]_vars

\* a call of list_dir on its own: u = dir_or_file_url.strip() and so on to the
\* return or the exception; <<>> in lout stands for the exception
list_dir_apply ==
    /\ linput # NoCall
    /\ lout = <<>>
    /\ lout' = <<list_dir(linput.u, linput.remote)>>
    /\ UNCHANGED linput
    /\ UNCHANGED syncvars
    /\ UNCHANGED readvars

\* sync_person from the return of list_dir on: upsert_images(conn, pid, urls)
\* with the urls of lout, committed
upsert_images_apply(c) ==
    /\ lout # <<>> /\ lout[1] # <<>>
    /\ Stopped(c)
    /\ results[c] = <<>>
    /\ \E row \in {p \in db.person : p.dav_url = linput.u /\ p.enabled = 1} :
          /\ db' = upsert_stats(upsert_each(deactivate(db, row.id), row.id,
                                            lout[1][1], Len(lout[1][1])), row.id)
          /\ results' = [results EXCEPT ![c] = <<[name |-> row.name, out |-> "OK"]>>]
    /\ UNCHANGED <<tx, pc, mode, names, cur, urls, runs, lastOK>>
    /\ UNCHANGED readvars
    /\ UNCHANGED listvars

\* the catalog of person A at location u after a sync that listed x.jpg and z.gif
ListCatalog(u) ==
    [person |-> {[id |-> 1, name |-> "A", alias_json |-> json_dumps(<<"a1">>),
                  dav_url |-> u, enabled |-> 1]},
     image |-> {[id |-> 1, person_id |-> 1, url |-> <<"dirA/", "x.jpg">>, ext |-> ".jpg",
                 active |-> 1],
                [id |-> 2, person_id |-> 1, url |-> <<"dirA/", "z.gif">>, ext |-> ".gif",
                 active |-> 1]},
     stats |-> {[person_id |-> 1, img_count |-> 2, min_id |-> 1, max_id |-> 2]},
     seq_image |-> 2, seq_person |-> 1]

InitList ==
    /\ \E u \in LOCATIONS :
          /\ \E remote \in {<<>>} \cup {<<resp>> : resp \in SeqsUpTo(LIST_HREFS, MaxRespLen)} :
                linput = [u |-> u, remote |-> remote]
          /\ db = ListCatalog(u)
    /\ Fresh

\* list_dir on a location and a response, and the sync of what it returned
NextList ==
    \/ list_dir_apply
    \/ upsert_images_apply(1)

SpecList == InitList /\ [][NextList]_vars

\* messages the handler may be given
MSGS == {"A", " A ", "a1", "a1 ", "a2", "a", "A1", "zz", " "}

\* contents an alias_json column may have: arrays, a JSON string, no JSON
ALIAS_TEXTS ==
    {json_dumps(<<"A", "a1">>), json_dumps(<<>>),
     [t |-> "string", v |-> <<"a2">>], [t |-> "malformed", v |-> <<>>]}

\* person tables of two rows: A as seeded but for its aliases and enabled flag,
\* and a row inserted by hand, before or after it
ServePersons ==
    {{[id |-> i, name |-> "A", alias_json |-> json_dumps(<<"a1", "a2">>),
       dav_url |-> "dirA/", enabled |-> e],
      [id |-> 3 - i, name |-> n, alias_json |-> j, dav_url |-> "dirD/", enabled |-> f]} :
        i \in {1, 2}, e \in {0, 1}, f \in {0, 1}, n \in {"C", "a1"}, j \in ALIAS_TEXTS}

\* the catalog of such a table after a sync that found one image of A
ServeCatalog(P) ==
    LET a == (CHOOSE p \in P : p.name = "A").id
    IN  [person |-> P,
         image |-> {[id |-> 1, person_id |-> a, url |-> <<"dirA/", "x.jpg">>,
                     ext |-> ".jpg", active |-> 1]},
         stats |-> {[person_id |-> a, img_count |-> 1, min_id |-> 1, max_id |-> 1]},
         seq_image |-> 1, seq_person |-> 2]

InitServe ==
    /\ \E P \in ServePersons : db = ServeCatalog(P)
    /\ linput = NoCall
    /\ Fresh

\* the serve path alone, on catalogs that hold rows inserted by hand
NextServe ==
    \/ \E msg \in MSGS : name_hit(msg)
    \/ rand_image_rowid_stat
    \/ rand_image_rowid_pick

SpecServe == InitServe /\ [][NextServe]_vars

\* ------------------------------------------------------------ properties
\* the step in which connection c's sync_person call ends with outcome out
Ended(c, out) ==
    results'[c] = Append(results[c], [name |-> cur[c].name, out |-> out])

\* the step in which upsert_images commits and sync_person returns
SyncedOK(c) ==
    pc[c] = "write" /\ Ended(c, "OK")

\* the last line connection c's run has printed
LastResult(c) ==
    IF results[c] = <<>> THEN <<>> ELSE <<results[c][Len(results[c])]>>

ActiveUrls(d, pid) == {r.url : r \in ActiveOf(d, pid)}

\* the person_stats row of pid is the aggregate of its active rows
StatsConsistent(d, pid) ==
    StatsOf(d, pid) = {[person_id |-> pid,
                        img_count |-> Cardinality(ActiveOf(d, pid)),
                        min_id |-> MinId(ActiveOf(d, pid)),
                        max_id |-> MaxId(ActiveOf(d, pid))]}

\* C1: right after a sync_person call on an enabled person returns, that
\* person has one person_stats row and its img_count is the number of the
\* person's image rows with active = 1, whatever the catalog held before.
C1_CountIsActiveRows ==
    [][\A c \in Conns :
          SyncedOK(c) =>
             /\ Cardinality(StatsOf(db', cur[c].pid)) = 1
             /\ \A s \in StatsOf(db', cur[c].pid) :
                   s.img_count = Cardinality(ActiveOf(db', cur[c].pid))]_vars

\* a sync of A has just returned; A has one active and one inactive row and
\* img_count 1
C1_Witness ==
    \E c \in Conns, p \in db.person :
       /\ p.name = "A"
       /\ pc[c] = "loop"
       /\ LastResult(c) = <<[name |-> "A", out |-> "OK"]>>
       /\ lastOK[p.id] # <<>>
       /\ Cardinality(ImagesOf(db, p.id)) = 2
       /\ Cardinality(ActiveOf(db, p.id)) = 1
       /\ \E s \in StatsOf(db, p.id) : s.img_count = 1

\* C2: when list_dir raises, sync_person raises to its caller and neither the
\* committed catalog nor the connection's transaction changes: the image rows
\* and the person_stats row of the person are what they were, and neither
\* the UPDATE nor the upserts are run.
C2_ListingFailureChangesNothing ==
    [][\A c \in Conns :
          Ended(c, "remote error") =>
             /\ pc[c] = "call"
             /\ db' = db
             /\ tx'[c] = tx[c]
             /\ pc'[c] # "write"]_vars

\* the listing of A has just failed in a run; A's rows, synced before, are
\* still active and counted
C2_Witness ==
    \E c \in Conns, p \in db.person :
       /\ p.name = "A"
       /\ pc[c] = "loop"
       /\ LastResult(c) = <<[name |-> "A", out |-> "remote error"]>>
       /\ tx[c] = <<>>
       /\ lastOK[p.id] # <<>>
       /\ ActiveOf(db, p.id) # {}
       /\ StatsConsistent(db, p.id)

\* C3: the UPDATE, the upserts and the person_stats upsert of one person
\* are one atomic unit: whenever a commit changes the image rows of a person,
\* the committed person_stats row of that person is the aggregate of the
\* committed rows, also when the commit is that of a later person's sync on
\* the same connection.
C3_SyncIsOneAtomicUnit ==
    [][\A p \in PIDS :
          ImagesOf(db', p) # ImagesOf(db, p) => StatsConsistent(db', p)]_vars

\* C4: after a sync_person call returns, the URLs of the person's active
\* rows are exactly the distinct URLs of the listing; each listed URL has one
\* row, and a row that existed for a listed URL is that row, reactivated.
C4_ActiveUrlsAreListing ==
    [][\A c \in Conns :
          SyncedOK(c) =>
             LET pid == cur[c].pid
                 new == ImagesOf(db', pid)
             IN  /\ ActiveUrls(db', pid) = Range(urls[c])
                 /\ \A u \in Range(urls[c]) :
                       Cardinality({r \in new : r.url = u}) = 1
                 /\ \A r \in ImagesOf(db, pid) :
                       r.url \in Range(urls[c]) =>
                          \E r2 \in new : r2.id = r.id /\ r2.url = r.url /\ r2.active = 1
                 /\ \A r \in new :
                       r.url \notin Range(urls[c]) => r.active = 0]_vars

\* the last sync of A was given a listing that names one URL twice, and A
\* has one row for it, beside a row it had before that is now inactive
C4_Witness ==
    \E p \in db.person :
       /\ p.name = "A"
       /\ lastOK[p.id] # <<>>
       /\ Len(lastOK[p.id][1].urls) = 2
       /\ Cardinality(Range(lastOK[p.id][1].urls)) = 1
       /\ Cardinality(ActiveOf(db, p.id)) = 1
       /\ Cardinality(ImagesOf(db, p.id)) = 2

\* C5: a sync_person call that follows a successful one of the same person
\* with the same listing leaves the person's image rows (ids, urls, ext,
\* active) and its person_stats row (img_count, min_id, max_id) as they were.
C5_SyncIsIdempotent ==
    [][\A c \in Conns :
          (/\ SyncedOK(c)
           /\ lastOK[cur[c].pid] # <<>>
           /\ lastOK[cur[c].pid][1].urls = urls[c]) =>
             /\ ImagesOf(db', cur[c].pid) = ImagesOf(db, cur[c].pid)
             /\ StatsOf(db', cur[c].pid) = StatsOf(db, cur[c].pid)]_vars

\* A was synced twice in a row with the same listing of at least one URL
C5_Witness ==
    \E p \in db.person :
       /\ p.name = "A"
       /\ lastOK[p.id] # <<>>
       /\ lastOK[p.id][1].rel = "same"
       /\ lastOK[p.id][1].urls # <<>>
       /\ ActiveUrls(db, p.id) = Range(lastOK[p.id][1].urls)

\* C6: when the listing of a sync lacks one URL of the listing of the
\* successful sync before it and is otherwise the same, the row of that URL
\* stays, with its id and active = 0, and img_count goes down by one.
C6_SoftDelete ==
    [][\A c \in Conns :
          (SyncedOK(c) /\ lastOK[cur[c].pid] # <<>>) =>
             LET pid == cur[c].pid
                 was == Range(lastOK[pid][1].urls)
             IN  \A u \in was :
                    Range(urls[c]) = was \ {u} =>
                       /\ \E r \in ImagesOf(db, pid) :
                             /\ r.url = u
                             /\ r.active = 1
                             /\ [r EXCEPT !.active = 0] \in ImagesOf(db', pid)
                       /\ \E s \in StatsOf(db, pid), t \in StatsOf(db', pid) :
                             t.img_count = s.img_count - 1]_vars

\* the last sync of A was given the listing of the sync before it less one
\* URL, and the row of a URL that is not listed any more is there, inactive
C6_Witness ==
    \E p \in db.person :
       /\ p.name = "A"
       /\ lastOK[p.id] # <<>>
       /\ lastOK[p.id][1].rel = "one less"
       /\ \E r \in ImagesOf(db, p.id) :
             r.active = 0 /\ r.url \notin Range(lastOK[p.id][1].urls)

\* C7: the img_count rand_image_rowid drew its offset from and the rows its
\* OFFSET query reads are of one committed content: the rows of the person
\* are, when the query runs, those they were when img_count was read.
C7_SampleFromOneSnapshot ==
    [][(spc = "pick" /\ spc' = "done") => ssnap = <<ImagesOf(db, spid)>>]_vars

\* the connection's run has attempted every name it read
AtEnd(c) ==
    pc[c] = "loop" /\ names[c] = <<>>

Attempted(c, name) ==
    \E i \in DOMAIN results[c] : results[c][i].name = name

\* C8: two runs that sync the same person on two connections are serialized:
\* at most one connection is inside its UPDATE/upsert pass at a time, and once
\* both have finished with that person (one of them at least successfully) the
\* committed person_stats row is the aggregate of the person's active rows,
\* which are those of the listing of the sync that committed last.
C8_ConcurrentSyncsSerialized ==
    /\ Cardinality({c \in Conns : tx[c] # <<>>}) <= 1
    /\ \A p \in db.person :
          (/\ p.name = "A"
           /\ \A c \in Conns : AtEnd(c) /\ Attempted(c, "A")
           /\ \E c \in Conns :
                 \E i \in DOMAIN results[c] :
                    results[c][i] = [name |-> "A", out |-> "OK"]) =>
             /\ StatsConsistent(db, p.id)
             /\ lastOK[p.id] # <<>> => ActiveUrls(db, p.id) = Range(lastOK[p.id][1].urls)

\* the names of the lines printed so far
RECURSIVE ResultNames(_)
ResultNames(rs) ==
    IF rs = <<>> THEN <<>> ELSE <<Head(rs).name>> \o ResultNames(Tail(rs))

\* the names sync_all has dealt with, is dealing with and has still to visit
Schedule(c) ==
    ResultNames(results[c])
       \o (IF pc[c] \in {"call", "write"} THEN <<cur[c].name>> ELSE <<>>)
       \o names[c]

C10_DrawsAreBijection ==
    (\A c \in Conns : tx[c] = <<>>) =>
       \A pid \in PIDS :
          LET stat == StatsOf(db, pid)
              act == ActiveOf(db, pid)
          IN  IF stat = {} \/ (\E s \in stat : s.img_count <= 0)
              THEN \A k \in 0 .. MaxListLen : rand_image_rowid(db, pid, k) = <<>>
              ELSE \A s \in stat :
                      LET draws == 0 .. s.img_count - 1
                      IN  /\ \A k \in draws :
                                /\ k + 1 <= Cardinality(act)
                                /\ rand_image_rowid(db, pid, k) = <<SortById(act)[k + 1]>>
                          /\ \A j, k \in draws :
                                rand_image_rowid(db, pid, j) = rand_image_rowid(db, pid, k)
                                   => j = k
                          /\ act = UNION {Range(rand_image_rowid(db, pid, k)) : k \in draws}

\* the alias set of an entity: the strings of its alias list
AliasSet(p) == IF p.alias_json.t = "array" THEN Range(p.alias_json.v) ELSE {}

\* the entities a text may resolve to: the enabled ones of that name, and only
\* when there is none the enabled ones that have the text among their aliases
Resolvable(d, text) ==
    LET byname == {p \in d.person : p.enabled = 1 /\ p.name = text}
        byalias == {p \in d.person : p.enabled = 1 /\ text \in AliasSet(p)}
    IN  IF byname # {} THEN byname ELSE byalias

ArraysOnly(d) == \A p \in d.person : p.alias_json.t = "array"

\* texts with blanks around them
Padded == {" ", " A ", "a1 "}

\* C11: resolving a message trims it, then answers with an enabled entity of
\* that name if there is one, otherwise with an enabled entity that has the
\* trimmed text among its aliases, otherwise with not-found; a disabled entity,
\* a prefix or another spelling never matches. lookup_db does so on every
\* catalog, find_person on every catalog whose alias columns hold lists.
C11_ResolveByNameThenAlias ==
    [][\A msg \in MSGS : name_hit(msg) =>
        LET R == Resolvable(db, stext')
        IN  /\ stext' \notin Padded
            /\ (msg \notin Padded => stext' = msg)
            /\ IF R = {}
               THEN hit' = <<>> /\ spid' = 0
               ELSE /\ \E p \in R : hit' = <<p.dav_url>>
                    /\ (ArraysOnly(db) => \E p \in R : spid' = p.id)]_vars

\* "A" was resolved to the entity named A although the enabled entity before
\* it has "A" among its aliases
C11_Witness ==
    /\ stext = "A"
    /\ hit = <<"dirA/">>
    /\ spid = 2
    /\ \E p \in db.person : p.id = 1 /\ p.enabled = 1 /\ "A" \in AliasSet(p)

\* connection c's sync_person goes on from the lookup of the person row
FromLookup(c) ==
    /\ pc[c] = "call"
    /\ pc'[c] = "write" \/ Len(results'[c]) = Len(results[c]) + 1

\* C12: sync_person for a name that has no person row fails with "person not
\* found", and for a person that is not enabled returns normally; in both
\* cases it asks for no listing and the committed person, image and
\* person_stats rows, and the connection's transaction, are as before.
C12_MissingOrDisabledIsNoOp ==
    [][\A c \in Conns :
        (FromLookup(c) /\ \A row \in person_row(c) : row.enabled = 0) =>
            /\ IF person_row(c) = {} THEN Ended(c, "person not found")
                                     ELSE Ended(c, "OK")
            /\ pc'[c] # "write"
            /\ urls'[c] = <<>>
            /\ db' = db
            /\ tx'[c] = tx[c]]_vars

\* a catalog with active image rows after a call for the disabled person C
C12_Witness ==
    /\ \E r \in db.image : r.active = 1
    /\ \E c \in Conns :
          /\ pc[c] = "idle"
          /\ LastResult(c) = <<[name |-> "C", out |-> "OK"]>>

\* C13: no step of sync_person or sync_all, ending well or not, removes an
\* image row from the committed catalog: every row is there afterwards with
\* the same id, person_id and url, and no two rows have the same person_id
\* and url.
C13_RowsAreNeverRemoved ==
    [][/\ \A r \in db.image : \E q \in db'.image :
              q.id = r.id /\ q.person_id = r.person_id /\ q.url = r.url
       /\ \A q, r \in db'.image :
              (q.person_id = r.person_id /\ q.url = r.url) => q = r]_vars

\* the last sync of A was given an empty listing and A's rows are all there,
\* inactive
C13_Witness ==
    \E p \in db.person :
       /\ p.name = "A"
       /\ lastOK[p.id] # <<>>
       /\ lastOK[p.id][1].urls = <<>>
       /\ Cardinality(ImagesOf(db, p.id)) > 1
       /\ ActiveOf(db, p.id) = {}

\* C14: a run of sync_person or sync_all creates no person and changes none:
\* the person rows (names, aliases, locations, enabled flags) of the committed
\* catalog are after every step of a run what they were before it.
C14_SyncKeepsPersonRows ==
    [][db'.person = db.person]_vars

SeedNames == {PERSONS_SEED[i].name : i \in DOMAIN PERSONS_SEED}

\* C15: applying the seed list leaves every seeded name with exactly one person
\* row, which has the seed's aliases and location and enabled = 1 and, if the
\* name had a row, that row's id; the persons of other names and all image and
\* person_stats rows are as before, and applying the seed once more changes
\* nothing.
C15_SeedIsIdempotentUpsert ==
    [][seed_persons_commit(1) =>
        /\ \A i \in DOMAIN PERSONS_SEED :
              LET s == PERSONS_SEED[i]
                  rows == {p \in db'.person : p.name = s.name}
              IN  /\ Cardinality(rows) = 1
                  /\ \A p \in rows :
                        /\ p.alias_json = [t |-> "array", v |-> s.aliases]
                        /\ p.dav_url = s.url
                        /\ p.enabled = 1
                        /\ \A q \in db.person : q.name = s.name => q.id = p.id
                        /\ \A q \in db'.person : q.id = p.id => q = p
        /\ {p \in db'.person : p.name \notin SeedNames}
              = {p \in db.person : p.name \notin SeedNames}
        /\ db'.image = db.image
        /\ db'.stats = db.stats
        /\ seed_persons(db') = db']_vars

\* the seed was applied twice to a catalog where A had been made by hand: A
\* has the seed's values under its old id, with its image row and aggregate
C15_Witness ==
    /\ runs > 1
    /\ pc[1] = "idle"
    /\ results[1] = <<>>
    /\ [id |-> 2, name |-> "A", alias_json |-> [t |-> "array", v |-> <<"a1">>],
        dav_url |-> "dirA/", enabled |-> 1] \in db.person
    /\ \E p \in db.person : p.name = "B" /\ p.id = 3
    /\ HandImage(2, 2, 1) \in db.image
    /\ [person_id |-> 2, img_count |-> 1, min_id |-> 2, max_id |-> 2] \in db.stats

\* the hrefs of LIST_HREFS that are files with an image extension
ImageHrefs == {"x.jpg", "y.PNG"}

IsImageHref(h) == h \in ImageHrefs

\* C16: for a directory location, list_dir returns the entries of the
\* multi-status response that are not the directory itself (with or without
\* its slash) and whose path ends in .jpg .jpeg .png .gif or .webp in any
\* case, in the order of the response; the sync of a listing with x.jpg,
\* y.PNG, notes.txt and subdir/ leaves exactly two active rows and
\* img_count = 2.
C16_ListingKeepsImagesInOrder ==
    [][/\ (list_dir_apply /\ linput.remote # <<>>) =>
             LET kept == SelectSeq(linput.remote[1], IsImageHref)
             IN  lout' = <<<<[i \in DOMAIN kept |-> <<"dirA/", kept[i]>>]>>>>
       /\ upsert_images_apply(1) =>
             LET kept == SelectSeq(linput.remote[1], IsImageHref)
             IN  /\ ActiveUrls(db', 1) = {<<"dirA/", h>> : h \in Range(kept)}
                 /\ \A t \in StatsOf(db', 1) : t.img_count = Cardinality(Range(kept))
                 /\ linput.remote[1] = <<"x.jpg", "y.PNG", "notes.txt", "subdir/">> =>
                       /\ Cardinality(ActiveOf(db', 1)) = 2
                       /\ StatsOf(db', 1) = {[person_id |-> 1, img_count |-> 2,
                                               min_id |-> 1, max_id |-> 3]}]_vars

\* the directory written without its slash answered x.jpg, y.PNG, notes.txt,
\* subdir/ and was synced: x.jpg and y.PNG are the active rows, img_count is 2
C16_Witness ==
    /\ linput = [u |-> "dirA", remote |-> <<(<<"x.jpg", "y.PNG", "notes.txt", "subdir/">>)>>]
    /\ lout = <<<<(<<(<<"dirA/", "x.jpg">>), (<<"dirA/", "y.PNG">>)>>)>>>>
    /\ results[1] = <<[name |-> "A", out |-> "OK"]>>
    /\ ActiveUrls(db, 1) = {<<"dirA/", "x.jpg">>, <<"dirA/", "y.PNG">>}
    /\ \E t \in db.stats : t.person_id = 1 /\ t.img_count = 2

\* C17: the step in which a sync of one person commits leaves the committed
\* image rows and the person_stats row of every other person as they were,
\* also in a sync_all run after an earlier person's sync failed and with
\* another connection syncing.
C17_SyncTouchesOnlyItsPerson ==
    [][\A c \in Conns :
          SyncedOK(c) =>
             \A p \in PIDS \ {cur[c].pid} :
                /\ ImagesOf(db', p) = ImagesOf(db, p)
                /\ StatsOf(db', p) = StatsOf(db, p)]_vars

\* C18: in every committed catalog, for every person, img_count (0 when the
\* person has no person_stats row) is the number of the person's rows with
\* active = 1, and min_id and max_id are the least and greatest id among them
\* (NULL when there are none).
C18_StatsAlwaysConsistent ==
    \A p \in db.person :
       IF StatsOf(db, p.id) = {} THEN ActiveOf(db, p.id) = {}
       ELSE StatsConsistent(db, p.id)

\* the location of the row is empty once stripped
Blank(row) == row.dav_url \in {"", " "}

\* C19: for an enabled person whose location is empty or blank, list_dir
\* returns the empty list whatever the remote would do and never raises, so
\* sync_person goes on to upsert_images with no URL, and its commit leaves
\* every row of the person inactive and the aggregate at img_count = 0 with
\* no min_id and max_id.
C19_BlankLocationListsNothing ==
    [][\A c \in Conns :
          /\ (FromLookup(c) /\ \E row \in person_row(c) : row.enabled # 0 /\ Blank(row)) =>
                /\ pc'[c] = "write"
                /\ urls'[c] = <<>>
                /\ \A row \in person_row(c) :
                      /\ list_dir(row.dav_url, <<>>) = <<<<>>>>
                      /\ \A resp \in Responses(row.dav_url) :
                            list_dir(row.dav_url, <<resp>>) = <<<<>>>>
          /\ (SyncedOK(c) /\ cur[c].url \in {"", " "}) =>
                LET pid == cur[c].pid
                IN  /\ ImagesOf(db', pid) = {[r EXCEPT !.active = 0] : r \in ImagesOf(db, pid)}
                    /\ StatsOf(db', pid) = {[person_id |-> pid, img_count |-> 0,
                                              min_id |-> NULL, max_id |-> NULL]}]_vars

\* C, enabled and with a blank location, was synced: the call returned
\* normally, C's row is there, inactive, and img_count is 0
C19_Witness ==
    /\ PersonC(1) \in db.person
    /\ pc[1] = "idle"
    /\ LastResult(1) = <<[name |-> "C", out |-> "OK"]>>
    /\ HandImage(1, 1, 0) \in db.image
    /\ [person_id |-> 1, img_count |-> 0, min_id |-> NULL, max_id |-> NULL] \in db.stats

\* C20: on every catalog, for the trimmed text of every message, lookup_db
\* finds a match exactly when find_person returns a row, and then the dav_url
\* lookup_db answers with is that of find_person's row; so too when the text
\* is a name and another person's alias, when two enabled persons share an
\* alias, and when an alias_json is not a JSON array of strings.
C20_ResolversAgree ==
    stext # "" =>
        LET res == lookup_db(db, stext)
            p == find_person(db, stext)
        IN  /\ res # <<>> <=> (p # <<>> /\ p # <<Raised>>)
            /\ (res # <<>> /\ p # <<>> /\ p # <<Raised>>) => res = <<p[1].dav_url>>
====
